---- MODULE Spec2Model ----
(***************************************************************************)
(* Model of scalebearx/fido2-test.                                         *)
(*                                                                         *)
(*  - CtapUserVerifierFactory.create()                                     *)
(*      src/ctap_keyring_device/user_verifiers/ctap_user_verifier_factory.py*)
(*    modelled statement by statement; the host (platform.system(), the    *)
(*    platform verifier's available()) is the environment.                 *)
(*  - main(), registration_flow(), authentication_flow()   src/main.py     *)
(*    modelled branch by branch; the CTAP device and the FIDO2 client are  *)
(*    the environment.                                                     *)
(*                                                                         *)
(* Exceptions raised by the environment are instances of Exception (the    *)
(* class the handlers of src/main.py name).                                *)
(***************************************************************************)
EXTENDS Naturals, Sequences, FiniteSets

\* ------------------------------------------------------------------ bounds
\* Number of create() calls made by the caller in one behaviour.
MaxCalls == 3
\* Number of runs of the demonstration script / direct flow calls.
MaxRuns == 3

\* --------------------------------------------------------------- constants
\* Platform tags platform.system() may report; only 'Darwin' is named by the code.
Platforms == {"Darwin", "Linux", "Windows"}
\* Outcomes of TouchIdCtapUserVerifier.available(): a truth value, or an exception.
ProbeOutcomes == {"true", "false", "raise"}

None == [id |-> 0, kind |-> "None"]

VARIABLES
    \* ---- environment of the factory
    hostPlatform,             \* what platform.system() reports now
    hostAvailable,            \* what the platform verifier's available() does now
    \* ---- module state of ctap_user_verifier_factory.py
    TouchIdCtapUserVerifier,  \* "class" (import succeeded) or "None" (ImportError)
    \* ---- the running create() call
    pc,                       \* position in create(): idle, L23..L29, done, raised
    system,                   \* local `system`
    touch_id_verifier,        \* local `touch_id_verifier`
    avail,                    \* value of touch_id_verifier.available() at line 26
    result,                   \* value returned to the caller
    nextId,                   \* identity of the next object constructed
    trace,                    \* effects of the running call, in order
    calls,                    \* create() calls started so far
    returned,                 \* results the caller received from completed calls
    \* ---- src/main.py
    mpc,                      \* position in main.py
    entry,                    \* "main" or "authentication_flow" (direct call)
    devices,                  \* number of devices CtapKeyringDevice.list_devices() lists now
    registration_data,        \* "None", "empty" ({}), or "dict" (the 5-key dict)
    auth_success,             \* "unset", "True", "False"
    log,                      \* device operations and final outcome of the running run
    runs                      \* runs started so far

factoryVars == <<hostPlatform, hostAvailable, TouchIdCtapUserVerifier, pc, system,
                 touch_id_verifier, avail, result, nextId, trace, calls, returned>>
mainVars == <<mpc, entry, devices, registration_data, auth_success, log, runs>>
vars == <<factoryVars, mainVars>>

\* ------------------------------------------------------------------ helpers
Event(op, id) == [op |-> op, id |-> id]

RECURSIVE Count(_, _)
Count(s, op) ==
    IF s = <<>> THEN 0
    ELSE (IF Head(s).op = op THEN 1 ELSE 0) + Count(Tail(s), op)

Ops(s) == [i \in 1..Len(s) |-> s[i].op]

IsPrefix(s, t) == Len(s) <= Len(t) /\ \A i \in 1..Len(s) : s[i] = t[i]

\* ---------------------------------------------------- the factory: Init
\* main.py is frozen while the factory is examined.
MainFrozen ==
    /\ mpc = "idle"
    /\ entry = "none"
    /\ devices = 1
    /\ registration_data = "None"
    /\ auth_success = "unset"
    /\ log = <<>>
    /\ runs = 0

\* Lines 9-14: the import either binds the class or, on ImportError, None.
ImportTouchId == TouchIdCtapUserVerifier \in {"class", "None"}

FactoryIdle ==
    /\ hostPlatform \in Platforms
    /\ hostAvailable \in ProbeOutcomes
    /\ ImportTouchId
    /\ pc = "idle"
    /\ system = "unset"
    /\ touch_id_verifier = None
    /\ avail = "unset"
    /\ result = None
    /\ nextId = 1
    /\ trace = <<>>
    /\ calls = 0
    /\ returned = <<>>

Init == FactoryIdle /\ MainFrozen

\* ------------------------------------------------ the factory: environment
\* Device state (enrolment, hardware) changes while the process lives.
EnvAvailability ==
    /\ \E v \in ProbeOutcomes \ {hostAvailable} : hostAvailable' = v
    /\ UNCHANGED <<hostPlatform, TouchIdCtapUserVerifier, pc, system, touch_id_verifier,
                   avail, result, nextId, trace, calls, returned>>
    /\ UNCHANGED mainVars

\* platform.system is replaced between calls (a patched platform in a test process).
EnvPlatform ==
    /\ pc \in {"idle", "done", "raised"}
    /\ \E p \in Platforms \ {hostPlatform} : hostPlatform' = p
    /\ UNCHANGED <<hostAvailable, TouchIdCtapUserVerifier, pc, system, touch_id_verifier,
                   avail, result, nextId, trace, calls, returned>>
    /\ UNCHANGED mainVars

\* ------------------------------------------------ the factory: create()
\* The caller invokes CtapUserVerifierFactory.create(): a new frame, fresh locals.
Call ==
    /\ pc \in {"idle", "done", "raised"}
    /\ calls < MaxCalls
    /\ calls' = calls + 1
    /\ pc' = "L23"
    /\ system' = "unset"
    /\ touch_id_verifier' = None
    /\ avail' = "unset"
    /\ result' = None
    /\ trace' = <<>>
    /\ UNCHANGED <<hostPlatform, hostAvailable, TouchIdCtapUserVerifier, nextId, returned>>
    /\ UNCHANGED mainVars

\* Line 23: system = platform.system()
ReadPlatform ==
    /\ pc = "L23"
    /\ system' = hostPlatform
    /\ trace' = Append(trace, Event("read", 0))
    /\ pc' = "L24"
    /\ UNCHANGED <<hostPlatform, hostAvailable, TouchIdCtapUserVerifier, touch_id_verifier,
                   avail, result, nextId, calls, returned>>
    /\ UNCHANGED mainVars

\* Line 24: if system == 'Darwin' and TouchIdCtapUserVerifier is not None
PlatformMatches == system = "Darwin" /\ TouchIdCtapUserVerifier # "None"

\* Mutant: the guard forgets `TouchIdCtapUserVerifier is not None`.
CheckPlatformNoImportGuard ==
    /\ pc = "L24"
    /\ pc' = IF system = "Darwin" THEN "L25" ELSE "L29"
    /\ UNCHANGED <<hostPlatform, hostAvailable, TouchIdCtapUserVerifier, system,
                   touch_id_verifier, avail, result, nextId, trace, calls, returned>>
    /\ UNCHANGED mainVars

\* Mutant: the guard forgets `system == 'Darwin'`.
CheckPlatformAnyPlatform ==
    /\ pc = "L24"
    /\ pc' = IF TouchIdCtapUserVerifier # "None" THEN "L25" ELSE "L29"
    /\ UNCHANGED <<hostPlatform, hostAvailable, TouchIdCtapUserVerifier, system,
                   touch_id_verifier, avail, result, nextId, trace, calls, returned>>
    /\ UNCHANGED mainVars

CheckPlatform ==
    /\ pc = "L24"
    /\ pc' = IF PlatformMatches THEN "L25" ELSE "L29"
    /\ UNCHANGED <<hostPlatform, hostAvailable, TouchIdCtapUserVerifier, system,
                   touch_id_verifier, avail, result, nextId, trace, calls, returned>>
    /\ UNCHANGED mainVars

\* Line 25: touch_id_verifier = TouchIdCtapUserVerifier()
ConstructTouchId ==
    /\ pc = "L25"
    /\ touch_id_verifier' = [id |-> nextId, kind |-> "TouchId"]
    /\ nextId' = nextId + 1
    /\ trace' = Append(trace, Event("construct_touch_id", nextId))
    /\ pc' = "L26"
    /\ UNCHANGED <<hostPlatform, hostAvailable, TouchIdCtapUserVerifier, system,
                   avail, result, calls, returned>>
    /\ UNCHANGED mainVars

\* Mutant: `if touch_id_verifier.available:` tests the bound method, never calls it.
ProbeAvailableIgnored ==
    /\ pc = "L26"
    /\ pc' = "L27"
    /\ UNCHANGED <<hostPlatform, hostAvailable, TouchIdCtapUserVerifier, system,
                   touch_id_verifier, avail, result, nextId, trace, calls, returned>>
    /\ UNCHANGED mainVars

\* Mutant: `if not touch_id_verifier.available():` inverts the test.
ProbeAvailableInverted ==
    /\ pc = "L26"
    /\ avail' = hostAvailable
    /\ trace' = Append(trace, Event("available", touch_id_verifier.id))
    /\ pc' = CASE hostAvailable = "true"  -> "L29"
               [] hostAvailable = "false" -> "L27"
               [] OTHER                   -> "raised"
    /\ UNCHANGED <<hostPlatform, hostAvailable, TouchIdCtapUserVerifier, system,
                   touch_id_verifier, result, nextId, calls, returned>>
    /\ UNCHANGED mainVars

\* Line 26: if touch_id_verifier.available(): the call is made on the local
\* instance; no handler surrounds it, so an exception leaves create().
ProbeAvailable ==
    /\ pc = "L26"
    /\ avail' = hostAvailable
    /\ trace' = Append(trace, Event("available", touch_id_verifier.id))
    /\ pc' = CASE hostAvailable = "true"  -> "L27"
               [] hostAvailable = "false" -> "L29"
               [] OTHER                   -> "raised"
    /\ UNCHANGED <<hostPlatform, hostAvailable, TouchIdCtapUserVerifier, system,
                   touch_id_verifier, result, nextId, calls, returned>>
    /\ UNCHANGED mainVars

\* Mutant: the `return` of line 27 is missing; control falls through to line 29.
ReturnTouchIdFallsThrough ==
    /\ pc = "L27"
    /\ pc' = "L29"
    /\ UNCHANGED <<hostPlatform, hostAvailable, TouchIdCtapUserVerifier, system,
                   touch_id_verifier, avail, result, nextId, trace, calls, returned>>
    /\ UNCHANGED mainVars

\* Mutant: `return TouchIdCtapUserVerifier()` builds a second instance.
ReturnTouchIdRebuilt ==
    /\ pc = "L27"
    /\ result' = [id |-> nextId, kind |-> "TouchId"]
    /\ nextId' = nextId + 1
    /\ trace' = trace \o <<Event("construct_touch_id", nextId), Event("return", nextId)>>
    /\ returned' = Append(returned, [id |-> nextId, kind |-> "TouchId"])
    /\ pc' = "done"
    /\ UNCHANGED <<hostPlatform, hostAvailable, TouchIdCtapUserVerifier, system,
                   touch_id_verifier, avail, calls>>
    /\ UNCHANGED mainVars

\* Line 27: return touch_id_verifier
ReturnTouchId ==
    /\ pc = "L27"
    /\ result' = touch_id_verifier
    /\ trace' = Append(trace, Event("return", touch_id_verifier.id))
    /\ returned' = Append(returned, touch_id_verifier)
    /\ pc' = "done"
    /\ UNCHANGED <<hostPlatform, hostAvailable, TouchIdCtapUserVerifier, system,
                   touch_id_verifier, avail, nextId, calls>>
    /\ UNCHANGED mainVars

\* Mutant: the fallback is memoised; a Noop returned earlier is handed out again.
ReturnNoopCached ==
    /\ pc = "L29"
    /\ LET old == {i \in DOMAIN returned : returned[i].kind = "Noop"}
           v   == IF old = {} THEN [id |-> nextId, kind |-> "Noop"]
                  ELSE returned[CHOOSE i \in old : TRUE]
       IN  /\ result' = v
           /\ nextId' = IF old = {} THEN nextId + 1 ELSE nextId
           /\ trace' = IF old = {}
                       THEN trace \o <<Event("construct_noop", nextId), Event("return", nextId)>>
                       ELSE Append(trace, Event("return", v.id))
           /\ returned' = Append(returned, v)
    /\ pc' = "done"
    /\ UNCHANGED <<hostPlatform, hostAvailable, TouchIdCtapUserVerifier, system,
                   touch_id_verifier, avail, calls>>
    /\ UNCHANGED mainVars

\* Line 29: return NoopCtapUserVerifier()
ReturnNoop ==
    /\ pc = "L29"
    /\ result' = [id |-> nextId, kind |-> "Noop"]
    /\ nextId' = nextId + 1
    /\ trace' = trace \o <<Event("construct_noop", nextId), Event("return", nextId)>>
    /\ returned' = Append(returned, [id |-> nextId, kind |-> "Noop"])
    /\ pc' = "done"
    /\ UNCHANGED <<hostPlatform, hostAvailable, TouchIdCtapUserVerifier, system,
                   touch_id_verifier, avail, calls>>
    /\ UNCHANGED mainVars

Next ==
    \/ EnvAvailability
    \/ EnvPlatform
    \/ Call
    \/ ReadPlatform
    \/ CheckPlatform
    \/ ConstructTouchId
    \/ ProbeAvailable
    \/ ReturnTouchId
    \/ ReturnNoop

Spec == Init /\ [][Next]_vars

\* ------------------------------------------------ claims about create()
Kinds == {"TouchId", "Noop"}

IdsOf(op) == {trace[i].id : i \in {j \in DOMAIN trace : trace[j].op = op}}

TouchIdPath == <<"read", "construct_touch_id", "available", "return">>
FallbackAfterProbe == <<"read", "construct_touch_id", "available", "construct_noop", "return">>
FallbackDirect == <<"read", "construct_noop", "return">>
Paths == {TouchIdPath, FallbackAfterProbe, FallbackDirect}

\* C1: every create() call that has ended has ended by returning one verifier,
\* the platform verifier or a Noop; it never ends in an error.
C1_CreateTotal ==
    pc \in {"done", "raised"} => (pc = "done" /\ result.kind \in Kinds)

\* C2: when available() raises during create(), the factory goes on to the
\* fallback and returns a Noop; the error does not reach the caller.
C2_ProbeErrorCaught ==
    avail = "raise" => /\ pc \in {"L29", "done"}
                       /\ pc = "done" => result.kind = "Noop"

\* C3: on 'Darwin', with the platform verifier class imported and available()
\* true in this call, create() returns the platform verifier, not the Noop.
C3_Priority ==
    (pc = "done" /\ system = "Darwin" /\ TouchIdCtapUserVerifier = "class" /\ avail = "true")
        => (result.kind = "TouchId" /\ result = touch_id_verifier)

C3_Witness ==
    pc = "done" /\ system = "Darwin" /\ TouchIdCtapUserVerifier = "class"
                /\ avail = "true" /\ result.kind = "TouchId"

\* C4: when no platform verifier matches (platform not 'Darwin', class absent,
\* or available() false) create() does not fail and what it returns is a Noop.
NoMatch ==
    /\ system # "unset"
    /\ \/ system # "Darwin"
       \/ TouchIdCtapUserVerifier = "None"
       \/ avail = "false"

C4_Fallback ==
    NoMatch => /\ pc # "raised"
               /\ pc # "L27"
               /\ pc = "done" => result.kind = "Noop"

C4_Witness ==
    pc = "done" /\ avail = "false" /\ touch_id_verifier.kind = "TouchId"
                /\ result.kind = "Noop"

\* C5: with TouchIdCtapUserVerifier = None, on every platform, create() neither
\* constructs nor probes the platform verifier, does not fail, and returns a Noop.
C5_AbsentVariant ==
    TouchIdCtapUserVerifier = "None" =>
        /\ pc \notin {"L25", "L26", "L27", "raised"}
        /\ IdsOf("construct_touch_id") = {}
        /\ IdsOf("available") = {}
        /\ touch_id_verifier = None
        /\ pc = "done" => result.kind = "Noop"

C5_Witness ==
    TouchIdCtapUserVerifier = "None" /\ system = "Darwin" /\ pc = "done"
        /\ result.kind = "Noop"

\* C6: the verifier create() returns is a Noop, or the platform verifier on which
\* available() was called in this same call and returned true.
C6_ReturnedIsAvailable ==
    pc = "done" =>
        \/ result.kind = "Noop"
        \/ /\ result.kind = "TouchId"
           /\ avail = "true"
           /\ result.id \in IdsOf("available")

C6_Witness ==
    pc = "done" /\ result.kind = "TouchId" /\ avail = "true" /\ calls >= 2

\* C7: every call returns an instance no earlier call returned, and its result
\* is decided by the platform and the availability read during that call:
\* line 23 reads the platform as it is now, line 26 probes availability as it is now.
AllFresh ==
    \A i, j \in DOMAIN returned : i # j => returned[i].id # returned[j].id

DecidedByThisCall ==
    pc = "done" =>
        /\ Count(trace, "read") = 1
        /\ PlatformMatches => Count(trace, "available") = 1
        /\ result.kind = "TouchId" <=> (PlatformMatches /\ avail = "true")
        /\ result = returned[Len(returned)]

ReadsNow ==
    /\ (pc = "L23" /\ pc' = "L24") => system' = hostPlatform
    /\ (pc = "L26" /\ pc' # "L26") => avail' = hostAvailable

C7_FreshAndCurrent == [](AllFresh /\ DecidedByThisCall) /\ [][ReadsNow]_vars

\* Availability went from true (first call returned the platform verifier) to
\* false (second call, same platform) and the second call returned a Noop.
C7_Witness ==
    /\ Len(returned) = 2 /\ pc = "done"
    /\ returned[1].kind = "TouchId" /\ returned[2].kind = "Noop"
    /\ system = "Darwin" /\ avail = "false"

\* C8: when the platform read is not 'Darwin', the call neither constructs nor
\* probes the platform verifier, even with the class imported; all it does is
\* construct one Noop and return it.
C8_NonDarwinFrame ==
    system \notin {"unset", "Darwin"} =>
        /\ IdsOf("construct_touch_id") = {}
        /\ IdsOf("available") = {}
        /\ touch_id_verifier = None
        /\ pc \notin {"L25", "L26", "L27", "raised"}
        /\ pc = "done" => /\ Ops(trace) = FallbackDirect
                          /\ result.kind = "Noop"
                          /\ IdsOf("construct_noop") = {result.id}

C8_Witness ==
    system = "Linux" /\ TouchIdCtapUserVerifier = "class" /\ hostAvailable = "true"
        /\ pc = "done" /\ result.kind = "Noop"

\* C9: the effects of one call are a prefix of read, construct, probe, return
\* (with the Noop constructed right before the return when it is the result);
\* the probe is on the constructed instance, and a returned platform verifier is
\* that same instance, with no Noop constructed.
C9_StepOrder ==
    /\ \E p \in Paths : IsPrefix(Ops(trace), p)
    /\ IdsOf("available") \subseteq IdsOf("construct_touch_id")
    /\ pc = "done" => /\ Ops(trace) \in Paths
                      /\ IdsOf("return") = {result.id}
    /\ (pc = "done" /\ result.kind = "TouchId") =>
            /\ IdsOf("construct_touch_id") = {result.id}
            /\ IdsOf("available") = {result.id}
            /\ IdsOf("construct_noop") = {}
    /\ (pc = "done" /\ result.kind = "Noop") => IdsOf("construct_noop") = {result.id}

C9_Witness ==
    pc = "done" /\ result.kind = "TouchId" /\ Ops(trace) = TouchIdPath

\* ============================================================ src/main.py
\* Python truthiness of registration_data: None and {} are falsy.
Truthy(data) == data = "dict"

\* Outcomes of the client calls inside the try blocks (lines 102-125, 173-193).
ClientOutcomes == {"ok", "raise"}

In(s, e) == \E i \in DOMAIN s : s[i] = e

\* Every e in s has an f somewhere before it.
Before(s, f, e) == \A i \in DOMAIN s : s[i] = e => \E j \in 1..(i - 1) : s[j] = f

\* s holds an f and an e somewhere after it.
After(s, f, e) == \E i, j \in DOMAIN s : i < j /\ s[i] = f /\ s[j] = e

MainInit ==
    /\ mpc = "idle"
    /\ entry = "none"
    /\ devices \in {0, 1}
    /\ registration_data = "None"
    /\ auth_success = "unset"
    /\ log = <<>>
    /\ runs = 0

\* The factory is frozen while main.py is examined.
FactoryFrozen ==
    /\ hostPlatform = "Darwin"
    /\ hostAvailable = "true"
    /\ TouchIdCtapUserVerifier = "class"
    /\ pc = "idle"
    /\ system = "unset"
    /\ touch_id_verifier = None
    /\ avail = "unset"
    /\ result = None
    /\ nextId = 1
    /\ trace = <<>>
    /\ calls = 0
    /\ returned = <<>>

InitMain == MainInit /\ FactoryFrozen

\* The keyring backend behind CtapKeyringDevice.list_devices() comes and goes.
EnvDevices ==
    /\ devices' = 1 - devices
    /\ UNCHANGED <<mpc, entry, registration_data, auth_success, log, runs>>
    /\ UNCHANGED factoryVars

\* Lines 196-204, 44-46: main() starts and calls registration_flow(logger).
MainStart ==
    /\ mpc \in {"idle", "end", "crashed"}
    /\ runs < MaxRuns
    /\ runs' = runs + 1
    /\ entry' = "main"
    /\ registration_data' = "None"
    /\ auth_success' = "unset"
    /\ log' = <<"Starting Registration">>
    /\ mpc' = "L50"
    /\ UNCHANGED devices
    /\ UNCHANGED factoryVars

\* Lines 50-53: devices = list_devices(); if not devices: return None
RegListDevices ==
    /\ mpc = "L50"
    /\ IF devices = 0
       THEN /\ log' = log \o <<"list_devices", "No CTAP devices available">>
            /\ registration_data' = "None"
            /\ mpc' = "L206"
       ELSE /\ log' = Append(log, "list_devices")
            /\ mpc' = "L104"
            /\ UNCHANGED registration_data
    /\ UNCHANGED <<entry, devices, auth_success, runs>>
    /\ UNCHANGED factoryVars

\* Lines 102-125: try: make_credential ... return {...}  except Exception: return None
MakeCredential ==
    /\ mpc = "L104"
    /\ \E o \in ClientOutcomes :
         IF o = "ok"
         THEN /\ log' = log \o <<"make_credential", "Registration successful!">>
              /\ registration_data' = "dict"
         ELSE /\ log' = log \o <<"make_credential", "Registration failed">>
              /\ registration_data' = "None"
    /\ mpc' = "L206"
    /\ UNCHANGED <<entry, devices, auth_success, runs>>
    /\ UNCHANGED factoryVars

\* Mutant: main() calls authentication_flow whatever registration_flow returned.
MainAfterRegistrationUnguarded ==
    /\ mpc = "L206"
    /\ log' = log \o <<"Registration completed successfully", "Starting Authentication">>
    /\ mpc' = "L132"
    /\ UNCHANGED <<entry, devices, registration_data, auth_success, runs>>
    /\ UNCHANGED factoryVars

\* Lines 206-210, 218-222: if registration_data: authentication_flow(...) else: ...
MainAfterRegistration ==
    /\ mpc = "L206"
    /\ IF Truthy(registration_data)
       THEN /\ log' = log \o <<"Registration completed successfully",
                               "Starting Authentication">>
            /\ mpc' = "L132"
       ELSE /\ log' = log \o <<"Failed at Registration", "Ended">>
            /\ mpc' = "end"
    /\ UNCHANGED <<entry, devices, registration_data, auth_success, runs>>
    /\ UNCHANGED factoryVars

\* Lines 128-130: a caller other than main() invokes authentication_flow(logger, data).
AuthDirectCall ==
    /\ mpc \in {"idle", "end", "crashed"}
    /\ runs < MaxRuns
    /\ runs' = runs + 1
    /\ entry' = "authentication_flow"
    /\ \E data \in {"None", "empty", "dict"} : registration_data' = data
    /\ auth_success' = "unset"
    /\ log' = <<"Starting Authentication">>
    /\ mpc' = "L132"
    /\ UNCHANGED devices
    /\ UNCHANGED factoryVars

\* Where authentication_flow returns to.
AuthReturn == IF entry = "main" THEN "L212" ELSE "end"

\* Lines 132-134: if not registration_data: return False
AuthCheckData ==
    /\ mpc = "L132"
    /\ IF ~Truthy(registration_data)
       THEN /\ log' = Append(log, "No registration data")
            /\ auth_success' = "False"
            /\ mpc' = AuthReturn
       ELSE /\ mpc' = "L137"
            /\ UNCHANGED <<log, auth_success>>
    /\ UNCHANGED <<entry, devices, registration_data, runs>>
    /\ UNCHANGED factoryVars

\* Line 137: device = list_devices()[0], outside any try: IndexError on an empty list
\* leaves authentication_flow and main().
AuthListDevices ==
    /\ mpc = "L137"
    /\ log' = Append(log, "list_devices")
    /\ mpc' = IF devices = 0 THEN "crashed" ELSE "L175"
    /\ UNCHANGED <<entry, devices, registration_data, auth_success, runs>>
    /\ UNCHANGED factoryVars

\* Lines 173-193: try: get_assertion ... return True  except Exception: return False
GetAssertion ==
    /\ mpc = "L175"
    /\ \E o \in ClientOutcomes :
         IF o = "ok"
         THEN /\ log' = log \o <<"get_assertion", "Authentication successful!">>
              /\ auth_success' = "True"
         ELSE /\ log' = log \o <<"get_assertion", "Authentication failed">>
              /\ auth_success' = "False"
    /\ mpc' = AuthReturn
    /\ UNCHANGED <<entry, devices, registration_data, runs>>
    /\ UNCHANGED factoryVars

\* Lines 212-222: if auth_success: ... else: ...
MainAfterAuthentication ==
    /\ mpc = "L212"
    /\ log' = log \o <<IF auth_success = "True" THEN "Completed Successfully"
                                                ELSE "Failed at Authentication",
                       "Ended">>
    /\ mpc' = "end"
    /\ UNCHANGED <<entry, devices, registration_data, auth_success, runs>>
    /\ UNCHANGED factoryVars

NextMain ==
    \/ EnvDevices
    \/ MainStart
    \/ RegListDevices
    \/ MakeCredential
    \/ MainAfterRegistration
    \/ AuthDirectCall
    \/ AuthCheckData
    \/ AuthListDevices
    \/ GetAssertion
    \/ MainAfterAuthentication

SpecMain == InitMain /\ [][NextMain]_vars

\* ------------------------------------------------ claims about main.py
RegistrationFailed ==
    In(log, "No CTAP devices available") \/ In(log, "Registration failed")

\* C10: get_assertion runs only after a make_credential that succeeded earlier
\* in the same run; when no device is listed or make_credential raises, main()
\* gets None from registration_flow, never calls authentication_flow, does not
\* fail, and ends with 'Failed at Registration'; authentication_flow given
\* empty registration data returns False without a device operation.
C10_AuthenticationOnlyAfterRegistration ==
    /\ entry = "main" => Before(log, "Registration successful!", "get_assertion")
    /\ (entry = "main" /\ RegistrationFailed) =>
            /\ registration_data = "None"
            /\ mpc \in {"L206", "end"}
            /\ ~In(log, "Starting Authentication")
            /\ ~In(log, "get_assertion")
            /\ mpc = "end" => In(log, "Failed at Registration")
    /\ In(log, "No registration data") =>
            /\ auth_success = "False"
            /\ ~After(log, "Starting Authentication", "list_devices")
            /\ ~In(log, "get_assertion")

C10_Witness ==
    entry = "main" /\ mpc = "end" /\ In(log, "Registration failed")
        /\ In(log, "Failed at Registration")

====
